---- MODULE Spec2Model ----
(***************************************************************************)
(* GoMetrics aggregation pipeline: four collector goroutines hand         *)
(* Metrics to one buffered channel, the Aggregator goroutine stores the   *)
(* latest Metric of each type and periodically publishes a Sample under   *)
(* a sync.RWMutex; HTTP readers copy the Sample with GetLatestSample.     *)
(***************************************************************************)
EXTENDS Integers, Sequences, FiniteSets, TLC

\* ---------------------------------------------------------------- bounds
MaxTime == 2        \* time.Now() ranges over 1..MaxTime
MaxPayload == 2     \* a probe returns a payload in 1..MaxPayload
NumReaders == 2     \* concurrent callers of GetLatestSample
bufferSize == 2     \* capacity of metricsChan (BUFFER_SIZE)
MaxEnv == 1         \* a numeric environment value ranges over -MaxEnv..MaxEnv
MaxCreated == 4     \* Metrics built while the hand-offs are traced

\* ------------------------------------------------------------ data model
Kinds == {"cpu", "memory", "disk", "network"}
Readers == 1..NumReaders
Nil == <<>>          \* a nil pointer; <<v>> is a pointer to v
ZeroTime == 0
ZeroPayload == 0

\* the dynamic type carried by Metric.Data for each Metric.Type
DataType(k) ==
  CASE k = "cpu" -> "CPUMetric"
    [] k = "memory" -> "MemoryMetric"
    [] k = "disk" -> "DiskMetric"
    [] k = "network" -> "NetworkMetric"

Metric(k, t, p) == [Type |-> k, Timestamp |-> t, Data |-> [dtype |-> DataType(k), val |-> p]]

\* a Metric.Type that storeMetric has no case for
UnknownKinds == {"gpu", ""}

\* a Metric some other holder of GetMetricsChan() sends
ForeignMetric(k, t, p) ==
  [Type |-> k, Timestamp |-> t, Data |-> [dtype |-> "CPUMetric", val |-> p]]

ZeroSample == [Timestamp |-> ZeroTime, cpu |-> ZeroPayload, memory |-> ZeroPayload,
               disk |-> ZeroPayload, network |-> ZeroPayload]

\* net/http status codes
StatusOK == 200
StatusServiceUnavailable == 503

\* the response of MetricsLatestHandler: status code, error body or Sample body
NoResponse == [status |-> 0, error |-> FALSE, sample |-> ZeroSample]

\* environment: a variable is unset (or empty), holds text that does not parse,
\* or holds text that parses to the number val
EnvKeys == {"COLLECTOR_INTERVAL", "SAMPLE_INTERVAL", "BUFFER_SIZE"}
Unset == [kind |-> "unset", val |-> 0]
EnvValues ==
  {Unset, [kind |-> "garbage", val |-> 0]}
    \cup {[kind |-> "number", val |-> n] : n \in (0 - MaxEnv)..MaxEnv}

\* main's defaults: 5 s and 250 ms in milliseconds, 100 Metrics
DefaultCollectorInterval == 5000
DefaultSampleInterval == 250
DefaultBufferSize == 100

\* main's configuration before it is read
NoConfig == [loaded |-> FALSE, collectorInterval |-> 0, sampleInterval |-> 0, bufferSize |-> 0]

VARIABLES
  ctxDone,        \* the shared context has been cancelled
  now,            \* the value time.Now() returns
  pc,             \* per collector: position in Start
  metricsChan,    \* contents of the buffered channel, oldest first
  aggPc,          \* position of Aggregator.Start / createSample
  current,        \* currentCPU, currentMemory, currentDisk, currentNetwork
  sample,         \* createSample's local Sample
  latestSample,   \* Aggregator.latestSample
  muWriter,       \* mu is write-locked
  muReaders,      \* number of read locks held on mu
  promSample,     \* the Sample last passed to UpdateFromSample
  rpc,            \* per reader: position in GetLatestSample
  result,         \* per reader: the copy GetLatestSample returns
  response,       \* per reader: the last response MetricsLatestHandler wrote
  env,            \* the environment variables main reads
  cfg,            \* main's configuration values, once read
  started,        \* outcome of main's construction of the aggregator and tickers
  \* history variables
  probed,         \* per collector: the probe has been invoked at least once
  cancelMidTick,  \* per collector: cancellation fired during the cycle in progress
  sentSinceRecv,  \* successful sends since the last receive
  rejected,       \* a send has been attempted on a full channel
  overwritten,    \* a received Metric has replaced a different payload of its type
  lastDelivered,  \* per type: payload of the last Metric received
  committed,      \* the last Sample completely written to latestSample
  anyPublished,   \* createSample has written to latestSample
  inFlight,       \* Metrics still queued that were queued when cancel() was called
  nextId,         \* number of Metrics built so far; the next one is numbered nextId + 1
  chanIds,        \* the numbers of the Metrics in metricsChan, oldest first
  recvLog,        \* the Metrics received, in order: type and number
  dropLog         \* the Metrics discarded at the hand-off, in order: type and number

vars == <<ctxDone, now, pc, metricsChan, aggPc, current, sample, latestSample,
          muWriter, muReaders, promSample, rpc, result, probed, cancelMidTick,
          sentSinceRecv, rejected, overwritten, lastDelivered, committed,
          anyPublished, response, env, cfg, started, inFlight, nextId, chanIds,
          recvLog, dropLog>>

workerVars == <<pc>>
aggVars == <<aggPc, current, sample, latestSample, muWriter, promSample>>
readerVars == <<rpc, result>>
configVars == <<env, cfg, started>>
traceVars == <<nextId, chanIds, recvLog, dropLog>>

\* ------------------------------------------------------- construction
\* mutant of InitialSample: the constructor stamps the empty Sample
InitialSampleStamped == [ZeroSample EXCEPT !.Timestamp = 1]

\* NewAggregator leaves latestSample at the zero value of Sample
InitialSample == ZeroSample

\* NewAggregator leaves the four current pointers nil
InitialCurrent == [k \in Kinds |-> Nil]

InitState ==
  /\ ctxDone = FALSE
  /\ now = 1
  /\ pc = [k \in Kinds |-> "idle"]
  /\ metricsChan = <<>>
  /\ aggPc = "idle"
  /\ current = InitialCurrent
  /\ sample = ZeroSample
  /\ latestSample = InitialSample
  /\ muWriter = FALSE
  /\ muReaders = 0
  /\ promSample = ZeroSample
  /\ rpc = [r \in Readers |-> "idle"]
  /\ result = [r \in Readers |-> ZeroSample]
  /\ probed = [k \in Kinds |-> FALSE]
  /\ cancelMidTick = [k \in Kinds |-> FALSE]
  /\ sentSinceRecv = 0
  /\ rejected = FALSE
  /\ overwritten = FALSE
  /\ lastDelivered = [k \in Kinds |-> Nil]
  /\ committed = ZeroSample
  /\ anyPublished = FALSE
  /\ response = [r \in Readers |-> NoResponse]
  /\ cfg = NoConfig
  /\ started = "no"
  /\ inFlight = 0
  /\ nextId = 0
  /\ chanIds = <<>>
  /\ recvLog = <<>>
  /\ dropLog = <<>>

\* the process starts with none of the three variables set
Init == InitState /\ env = [k \in EnvKeys |-> Unset]

\* ----------------------------------------------------- configuration
\* getEnvDuration: the parsed duration if the text parses, else the default
getEnvDuration(value, defaultValue) ==
  IF value.kind = "number" THEN value.val ELSE defaultValue

\* getEnvInt: the parsed integer if the text parses, else the default
getEnvInt(value, defaultValue) ==
  IF value.kind = "number" THEN value.val ELSE defaultValue

\* main reads its configuration
main_LoadConfig ==
  /\ ~cfg.loaded
  /\ cfg' = [loaded |-> TRUE,
             collectorInterval |-> getEnvDuration(env["COLLECTOR_INTERVAL"], DefaultCollectorInterval),
             sampleInterval |-> getEnvDuration(env["SAMPLE_INTERVAL"], DefaultSampleInterval),
             bufferSize |-> getEnvInt(env["BUFFER_SIZE"], DefaultBufferSize)]
  /\ UNCHANGED <<env, started>>

\* NewAggregator: make(chan Metric, bufferSize) panics on a negative size
main_NewAggregator ==
  /\ cfg.loaded
  /\ started = "no"
  /\ started' = IF cfg.bufferSize < 0 THEN "panic" ELSE "constructed"
  /\ UNCHANGED <<env, cfg>>

\* the Start goroutines: time.NewTicker panics on a non-positive interval
Start_NewTicker ==
  /\ started = "constructed"
  /\ started' = IF cfg.sampleInterval <= 0 \/ cfg.collectorInterval <= 0
                  THEN "panic" ELSE "running"
  /\ UNCHANGED <<env, cfg>>

\* ------------------------------------------------------- environment
\* main: cancel() after the shutdown signal
Cancel ==
  /\ ~ctxDone
  /\ ctxDone' = TRUE
  /\ UNCHANGED <<now, workerVars, metricsChan, aggVars, muReaders, readerVars>>

\* the clock advances
Advance ==
  /\ now < MaxTime
  /\ now' = now + 1
  /\ UNCHANGED <<ctxDone, workerVars, metricsChan, aggVars, muReaders, readerVars>>

\* ------------------------------------------------------------ channel
\* mutant of CanSend: the channel is made one slot too large
CanSendOffByOne(q) == Len(q) <= bufferSize

\* a send on make(chan Metric, bufferSize) is ready while the buffer has room
CanSend(q) == Len(q) < bufferSize

othersUnchangedByWorker ==
  UNCHANGED <<ctxDone, now, aggVars, muReaders, readerVars>>

\* --------------------------------------------------------- collectors
\* A collector is "collecting" from the call of its probe to the select that
\* hands the Metric over: the probe's return and that select are one step.

\* CPUCollector.Start up to the loop: the ticker is created, nothing is collected
CPUCollector_Start ==
  /\ pc["cpu"] = "idle"
  /\ pc' = [pc EXCEPT !["cpu"] = "waiting"]
  /\ UNCHANGED <<metricsChan>>
  /\ othersUnchangedByWorker

\* Start of the other collectors up to the loop: collectAndSend is called first
CollectorStart(w) ==
  /\ pc[w] = "idle"
  /\ pc' = [pc EXCEPT ![w] = "collecting"]
  /\ UNCHANGED <<metricsChan>>
  /\ othersUnchangedByWorker

\* mutant of LoopDone: case <-ctx.Done() only breaks out of the select, and
\* the loop goes on
LoopDoneBreaksSelect(w) ==
  /\ pc[w] = "waiting"
  /\ ctxDone
  /\ UNCHANGED <<pc, metricsChan>>
  /\ othersUnchangedByWorker

\* select in the loop of Start: case <-ctx.Done()
LoopDone(w) ==
  /\ pc[w] = "waiting"
  /\ ctxDone
  /\ pc' = [pc EXCEPT ![w] = "stopped"]
  /\ UNCHANGED <<metricsChan>>
  /\ othersUnchangedByWorker

\* mutant of LoopTick: the probes share a lock, so a collector waits while
\* another one is inside its probe
LoopTickSerialized(w) ==
  /\ pc[w] = "waiting"
  /\ \A v \in Kinds \ {w} : pc[v] # "collecting"
  /\ pc' = [pc EXCEPT ![w] = "collecting"]
  /\ UNCHANGED <<metricsChan>>
  /\ UNCHANGED <<ctxDone, now, aggVars, muReaders, readerVars>>

\* select in the loop of Start: case <-ticker.C, the probe is invoked. The ticker
\* runs from its creation to the return of Start and buffers one tick, so a tick
\* may be ready at any evaluation of the select, also together with ctx.Done()
LoopTick(w) ==
  /\ pc[w] = "waiting"
  /\ pc' = [pc EXCEPT ![w] = "collecting"]
  /\ UNCHANGED <<metricsChan>>
  /\ othersUnchangedByWorker

\* mutant of ProbeFail: the "continue" / "return" after the error is missing
\* and the zero Metric is handed over
ProbeFailSends(w) ==
  /\ pc[w] = "collecting"
  /\ metricsChan' = IF Len(metricsChan) < bufferSize
                      THEN Append(metricsChan, Metric(w, ZeroTime, ZeroPayload))
                      ELSE metricsChan
  /\ pc' = [pc EXCEPT ![w] = "waiting"]
  /\ UNCHANGED <<ctxDone, now, aggVars, muReaders, readerVars>>

\* the probe returns an error: the cycle is skipped
ProbeFail(w) ==
  /\ pc[w] = "collecting"
  /\ pc' = [pc EXCEPT ![w] = "waiting"]
  /\ UNCHANGED <<metricsChan>>
  /\ othersUnchangedByWorker

\* mutant of SendOK: the Metric is queued twice
SendOKTwice(w) ==
  /\ pc[w] = "collecting"
  /\ Len(metricsChan) < bufferSize
  /\ \E p \in 1..MaxPayload :
       metricsChan' = Append(Append(metricsChan, Metric(w, now, p)), Metric(w, now, p))
  /\ pc' = [pc EXCEPT ![w] = "waiting"]
  /\ UNCHANGED <<ctxDone, now, aggVars, muReaders, readerVars>>

\* the probe returns a payload, the Metric is built with time.Now(), and
\* select { case output <- metric: } is taken
SendOK(w) ==
  /\ pc[w] = "collecting"
  /\ CanSend(metricsChan)
  /\ \E p \in 1..MaxPayload : metricsChan' = Append(metricsChan, Metric(w, now, p))
  /\ pc' = [pc EXCEPT ![w] = "waiting"]
  /\ othersUnchangedByWorker

\* mutant of SendDrop: the default branch returns from Start
SendDropReturns(w) ==
  /\ pc[w] = "collecting"
  /\ Len(metricsChan) >= bufferSize
  /\ pc' = [pc EXCEPT ![w] = "stopped"]
  /\ UNCHANGED <<metricsChan, ctxDone, now, aggVars, muReaders, readerVars>>

\* mutant of SendDrop: on a full channel the oldest Metric is evicted and the
\* new one queued
SendDropEvictsOldest(w) ==
  /\ pc[w] = "collecting"
  /\ Len(metricsChan) >= bufferSize
  /\ \E p \in 1..MaxPayload :
       metricsChan' = Append(Tail(metricsChan), Metric(w, now, p))
  /\ pc' = [pc EXCEPT ![w] = "waiting"]
  /\ UNCHANGED <<ctxDone, now, aggVars, muReaders, readerVars>>

\* mutant of SendDrop: on a full channel the Metric is queued all the same
SendDropQueuesAnyway(w) ==
  /\ pc[w] = "collecting"
  /\ Len(metricsChan) >= bufferSize
  /\ \E p \in 1..MaxPayload : metricsChan' = Append(metricsChan, Metric(w, now, p))
  /\ pc' = [pc EXCEPT ![w] = "waiting"]
  /\ UNCHANGED <<ctxDone, now, aggVars, muReaders, readerVars>>

\* the probe returns a payload and select { default: } is taken: the Metric is dropped
SendDrop(w) ==
  /\ pc[w] = "collecting"
  /\ ~CanSend(metricsChan)
  /\ pc' = [pc EXCEPT ![w] = "waiting"]
  /\ UNCHANGED <<metricsChan>>
  /\ othersUnchangedByWorker

\* the three-way select of CPUCollector.Start: case <-ctx.Done() returns from Start
CPUSendDone ==
  /\ pc["cpu"] = "collecting"
  /\ ctxDone
  /\ pc' = [pc EXCEPT !["cpu"] = "stopped"]
  /\ UNCHANGED <<metricsChan>>
  /\ othersUnchangedByWorker

\* the three-way select of CPUCollector.Start: default only when nothing is ready
CPUSendDrop ==
  /\ ~ctxDone
  /\ SendDrop("cpu")

\* the send step of CPUCollector.Start
CPUCollector_Send == SendOK("cpu") \/ CPUSendDone \/ CPUSendDrop

\* the final select of collectAndSend (memory, disk, network)
collectAndSend_Send(w) == SendOK(w) \/ SendDrop(w)

\* the hand-off of collector w ends with the return from Start
HandoffReturns(w) ==
  /\ IF w = "cpu" THEN CPUCollector_Send ELSE collectAndSend_Send(w)
  /\ pc'[w] = "stopped"

CPUCollector ==
  \/ CPUCollector_Start
  \/ LoopDone("cpu")
  \/ LoopTick("cpu")
  \/ ProbeFail("cpu")
  \/ CPUCollector_Send

Collector(w) ==
  \/ CollectorStart(w)
  \/ LoopDone(w)
  \/ LoopTick(w)
  \/ ProbeFail(w)
  \/ collectAndSend_Send(w)

MemoryCollector == Collector("memory")
DiskCollector == Collector("disk")
NetworkCollector == Collector("network")

\* a sender other than the four collectors hands over a Metric of an unknown type
ForeignSend ==
  /\ CanSend(metricsChan)
  /\ \E k \in UnknownKinds, p \in 1..MaxPayload :
       metricsChan' = Append(metricsChan, ForeignMetric(k, now, p))
  /\ UNCHANGED <<pc>>
  /\ othersUnchangedByWorker

\* --------------------------------------------------------- aggregator
othersUnchangedByAgg ==
  UNCHANGED <<ctxDone, now, workerVars, readerVars>>

\* mutant of storeMetric: a slot is written only while it is nil
storeMetricKeepFirst(cur, metric) ==
  [cur EXCEPT ![metric.Type] = IF @ = Nil THEN <<metric.Data.val>> ELSE @]

\* mutant of storeMetric: a Metric of an unknown type is stored as CPU data
storeMetricDefaultsToCPU(cur, metric) ==
  IF metric.Type \in Kinds
    THEN [cur EXCEPT ![metric.Type] = <<metric.Data.val>>]
    ELSE [cur EXCEPT !["cpu"] = <<metric.Data.val>>]

\* the slot a Metric.Type selects, after the type assertion on Metric.Data
storeMetric(cur, metric) ==
  CASE metric.Type = "cpu" ->
         IF metric.Data.dtype = "CPUMetric"
           THEN [cur EXCEPT !["cpu"] = <<metric.Data.val>>] ELSE cur
    [] metric.Type = "memory" ->
         IF metric.Data.dtype = "MemoryMetric"
           THEN [cur EXCEPT !["memory"] = <<metric.Data.val>>] ELSE cur
    [] metric.Type = "disk" ->
         IF metric.Data.dtype = "DiskMetric"
           THEN [cur EXCEPT !["disk"] = <<metric.Data.val>>] ELSE cur
    [] metric.Type = "network" ->
         IF metric.Data.dtype = "NetworkMetric"
           THEN [cur EXCEPT !["network"] = <<metric.Data.val>>] ELSE cur
    [] OTHER -> cur

\* mutant of SlotValue: a nil slot yields a payload that was never delivered
SlotValueGarbage(slot) == IF slot = Nil THEN MaxPayload ELSE slot[1]

\* "if a.currentX != nil { sample.X = *a.currentX }": the zero value otherwise
SlotValue(slot) == IF slot = Nil THEN ZeroPayload ELSE slot[1]

\* mutant of BuildSample: the timestamp is a clock reading that wraps around
BuildSampleWrapped(cur, t) ==
  [Timestamp |-> (t % MaxTime) + 1,
   cpu |-> IF cur["cpu"] = Nil THEN ZeroPayload ELSE cur["cpu"][1],
   memory |-> IF cur["memory"] = Nil THEN ZeroPayload ELSE cur["memory"][1],
   disk |-> IF cur["disk"] = Nil THEN ZeroPayload ELSE cur["disk"][1],
   network |-> IF cur["network"] = Nil THEN ZeroPayload ELSE cur["network"][1]]

\* mutant of BuildSample: the CPU and memory payloads are taken from each
\* other's slot
BuildSampleSwapped(cur, t) ==
  [Timestamp |-> t,
   cpu |-> IF cur["memory"] = Nil THEN ZeroPayload ELSE cur["memory"][1],
   memory |-> IF cur["cpu"] = Nil THEN ZeroPayload ELSE cur["cpu"][1],
   disk |-> IF cur["disk"] = Nil THEN ZeroPayload ELSE cur["disk"][1],
   network |-> IF cur["network"] = Nil THEN ZeroPayload ELSE cur["network"][1]]

\* the Sample createSample builds from the current slots
BuildSample(cur, t) ==
  [Timestamp |-> t, cpu |-> SlotValue(cur["cpu"]), memory |-> SlotValue(cur["memory"]),
   disk |-> SlotValue(cur["disk"]), network |-> SlotValue(cur["network"])]

\* Aggregator.Start up to the loop: the ticker is created
Aggregator_Start ==
  /\ aggPc = "idle"
  /\ aggPc' = "select"
  /\ UNCHANGED <<current, sample, latestSample, muWriter, promSample,
                    metricsChan, muReaders>>
  /\ othersUnchangedByAgg

\* mutant of Aggregator_Done: the aggregator resets latestSample as it stops
Aggregator_DoneClears ==
  /\ aggPc = "select"
  /\ ctxDone
  /\ aggPc' = "stopped"
  /\ latestSample' = ZeroSample
  /\ UNCHANGED <<current, sample, muWriter, promSample, metricsChan, muReaders>>
  /\ UNCHANGED <<ctxDone, now, workerVars, readerVars>>

\* select: case <-ctx.Done()
Aggregator_Done ==
  /\ aggPc = "select"
  /\ ctxDone
  /\ aggPc' = "stopped"
  /\ UNCHANGED <<current, sample, latestSample, muWriter, promSample,
                    metricsChan, muReaders>>
  /\ othersUnchangedByAgg

\* mutant of Aggregator_Receive: the newest Metric is taken, not the oldest
Aggregator_ReceiveNewest ==
  /\ aggPc = "select"
  /\ metricsChan # <<>>
  /\ metricsChan' = SubSeq(metricsChan, 1, Len(metricsChan) - 1)
  /\ current' = storeMetric(current, metricsChan[Len(metricsChan)])
  /\ UNCHANGED <<aggPc, sample, latestSample, muWriter, promSample, muReaders>>
  /\ UNCHANGED <<ctxDone, now, workerVars, readerVars>>

\* select: case metric := <-a.metricsChan, then storeMetric(metric)
Aggregator_Receive ==
  /\ aggPc = "select"
  /\ metricsChan # <<>>
  /\ metricsChan' = Tail(metricsChan)
  /\ current' = storeMetric(current, Head(metricsChan))
  /\ UNCHANGED <<aggPc, sample, latestSample, muWriter, promSample,
                   muReaders>>
  /\ othersUnchangedByAgg

\* mutant of createSample_Build: the select looks at the ticker only when the
\* channel is empty
createSample_BuildWhenDrained ==
  /\ aggPc = "select"
  /\ metricsChan = <<>>
  /\ sample' = BuildSample(current, now)
  /\ aggPc' = "locking"
  /\ UNCHANGED <<current, latestSample, muWriter, promSample, metricsChan, muReaders>>
  /\ UNCHANGED <<ctxDone, now, workerVars, readerVars>>

\* select: case <-ticker.C (a tick may be ready at any evaluation of the select),
\* createSample builds its Sample and calls mu.Lock()
createSample_Build ==
  /\ aggPc = "select"
  /\ sample' = BuildSample(current, now)
  /\ aggPc' = "locking"
  /\ UNCHANGED <<current, latestSample, muWriter, promSample, metricsChan, muReaders>>
  /\ othersUnchangedByAgg

\* mu.Lock() returns once no reader holds the lock; a.latestSample = sample
\* begins, first part of the struct copy: the timestamp
createSample_Lock ==
  /\ aggPc = "locking"
  /\ ~muWriter
  /\ muReaders = 0
  /\ muWriter' = TRUE
  /\ latestSample' = [latestSample EXCEPT !.Timestamp = sample.Timestamp]
  /\ aggPc' = "writing"
  /\ UNCHANGED <<current, sample, promSample, metricsChan, muReaders>>
  /\ othersUnchangedByAgg

\* a.latestSample = sample, rest of the struct copy: the four payloads; mu.Unlock()
createSample_Unlock ==
  /\ aggPc = "writing"
  /\ latestSample' = sample
  /\ muWriter' = FALSE
  /\ aggPc' = "unlocked"
  /\ UNCHANGED <<current, sample, promSample, metricsChan, muReaders>>
  /\ othersUnchangedByAgg

\* mutant of createSample_Update: createSample returns without calling
\* UpdateFromSample
createSample_UpdateSkipped ==
  /\ aggPc = "unlocked"
  /\ sample' = ZeroSample
  /\ aggPc' = "select"
  /\ UNCHANGED <<current, latestSample, muWriter, promSample, metricsChan, muReaders>>
  /\ othersUnchangedByAgg

\* mutant of createSample_Update: the slots are emptied once they are published
createSample_UpdateClears ==
  /\ aggPc = "unlocked"
  /\ promSample' = sample
  /\ sample' = ZeroSample
  /\ current' = InitialCurrent
  /\ aggPc' = "select"
  /\ UNCHANGED <<latestSample, muWriter, metricsChan, muReaders>>
  /\ UNCHANGED <<ctxDone, now, workerVars, readerVars>>

\* a.promMetrics.UpdateFromSample(sample), then back to the select
createSample_Update ==
  /\ aggPc = "unlocked"
  /\ promSample' = sample
  /\ sample' = ZeroSample
  /\ aggPc' = "select"
  /\ UNCHANGED <<current, latestSample, muWriter, metricsChan, muReaders>>
  /\ othersUnchangedByAgg

Aggregator ==
  \/ Aggregator_Start
  \/ Aggregator_Done
  \/ Aggregator_Receive
  \/ createSample_Build
  \/ createSample_Lock
  \/ createSample_Unlock
  \/ createSample_Update

\* ------------------------------------------------------------ readers
othersUnchangedByReader ==
  UNCHANGED <<ctxDone, now, workerVars, metricsChan, aggVars>>

\* mutant of RLockReady: GetLatestSample reads without taking the read lock
RLockNeverWaits == TRUE

\* a.mu.RLock() is granted unless the writer holds mu or waits in Lock()
RLockReady == ~muWriter /\ aggPc # "locking"

\* a.mu.RLock(); return a.latestSample: the value copy, taken under the read lock
GetLatestSample_Read(r) ==
  /\ rpc[r] = "idle"
  /\ RLockReady
  /\ muReaders' = muReaders + 1
  /\ result' = [result EXCEPT ![r] = latestSample]
  /\ rpc' = [rpc EXCEPT ![r] = "reading"]
  /\ othersUnchangedByReader

\* the deferred a.mu.RUnlock(); the caller consumes the copy
GetLatestSample_RUnlock(r) ==
  /\ rpc[r] = "reading"
  /\ muReaders' = muReaders - 1
  /\ result' = [result EXCEPT ![r] = ZeroSample]
  /\ rpc' = [rpc EXCEPT ![r] = "idle"]
  /\ othersUnchangedByReader

GetLatestSample(r) ==
  \/ GetLatestSample_Read(r)
  \/ GetLatestSample_RUnlock(r)

\* mutant of HandlerResponse: the Sample is served without looking at its timestamp
HandlerResponseUnchecked(s) == [status |-> StatusOK, error |-> FALSE, sample |-> s]

\* MetricsLatestHandler after the call of GetLatestSample: 503 with an error
\* body if sample.Timestamp.IsZero(), else 200 with the Sample as body
HandlerResponse(s) ==
  IF s.Timestamp = ZeroTime
    THEN [status |-> StatusServiceUnavailable, error |-> TRUE, sample |-> ZeroSample]
    ELSE [status |-> StatusOK, error |-> FALSE, sample |-> s]

\* MetricsLatestHandler: sample := h.aggregator.GetLatestSample() returns; the
\* deferred RUnlock has run and the handler holds the copy
MetricsLatestHandler_Return(r) ==
  /\ rpc[r] = "reading"
  /\ muReaders' = muReaders - 1
  /\ rpc' = [rpc EXCEPT ![r] = "responding"]
  /\ UNCHANGED result
  /\ othersUnchangedByReader

\* MetricsLatestHandler: the status and the body are written from the copy
MetricsLatestHandler_Write(r) ==
  /\ rpc[r] = "responding"
  /\ response' = [response EXCEPT ![r] = HandlerResponse(result[r])]
  /\ result' = [result EXCEPT ![r] = ZeroSample]
  /\ rpc' = [rpc EXCEPT ![r] = "idle"]
  /\ UNCHANGED muReaders
  /\ othersUnchangedByReader

\* ---------------------------------------------------------- history
\* The history variables record what has happened; no action of the program
\* reads them. Each is a function of the step taken.

\* the step is a receive from metricsChan
IsReceive == Len(metricsChan') < Len(metricsChan)

\* the step is a successful send to metricsChan
IsSend == Len(metricsChan') > Len(metricsChan)

HistDelivered ==
  lastDelivered' =
    IF IsReceive
      THEN [lastDelivered EXCEPT ![Head(metricsChan).Type] = <<Head(metricsChan).Data.val>>]
      ELSE lastDelivered

HistSent ==
  sentSinceRecv' = IF IsSend THEN sentSinceRecv + 1
                   ELSE IF IsReceive THEN 0 ELSE sentSinceRecv

\* the step ends a cycle of collector w whose Metric found the channel full
HistRejected(w) ==
  rejected' = (rejected \/ (pc[w] = "collecting" /\ pc'[w] # "collecting"
                             /\ Len(metricsChan) >= bufferSize))

HistOverwritten ==
  overwritten' =
    (overwritten \/ (IsReceive /\ lastDelivered[Head(metricsChan).Type]
                                    \notin {Nil, <<Head(metricsChan).Data.val>>}))

HistProbed ==
  probed' = [k \in Kinds |-> probed[k] \/ (pc[k] # "collecting" /\ pc'[k] = "collecting")]

HistMidTick ==
  cancelMidTick' =
    [k \in Kinds |->
       IF ~ctxDone /\ ctxDone' THEN pc[k] = "collecting"
       ELSE IF pc'[k] = "stopped" \/ (pc[k] = "waiting" /\ pc'[k] = "collecting") THEN FALSE
       ELSE cancelMidTick[k]]

HistCommitted ==
  committed' = IF aggPc = "writing" /\ aggPc' = "unlocked" THEN latestSample' ELSE committed

HistPublished ==
  anyPublished' = (anyPublished \/ latestSample' # latestSample)

HistInFlight ==
  inFlight' = IF ~ctxDone /\ ctxDone' THEN Len(metricsChan)
              ELSE IF IsReceive /\ inFlight > 0 THEN inFlight - 1
              ELSE inFlight

\* the position in metricsChan of the Metric a receive step took out
Removed ==
  CHOOSE i \in 1..Len(metricsChan) :
    metricsChan' = [j \in 1..(Len(metricsChan) - 1) |->
                      IF j < i THEN metricsChan[j] ELSE metricsChan[j + 1]]

\* a Metric was built and queued: it gets the next number
HistTraceSend ==
  /\ nextId' = nextId + 1
  /\ chanIds' = Append(chanIds, nextId + 1)
  /\ UNCHANGED <<recvLog, dropLog>>

\* collector w built a Metric and discarded it at the hand-off
HistTraceDrop(w) ==
  /\ nextId' = nextId + 1
  /\ dropLog' = Append(dropLog, [Type |-> w, id |-> nextId + 1])
  /\ UNCHANGED <<chanIds, recvLog>>

\* the aggregator took a Metric out of metricsChan
HistTraceRecv ==
  /\ recvLog' = Append(recvLog, [Type |-> metricsChan[Removed].Type, id |-> chanIds[Removed]])
  /\ chanIds' = [j \in 1..(Len(chanIds) - 1) |->
                   IF j < Removed THEN chanIds[j] ELSE chanIds[j + 1]]
  /\ UNCHANGED <<nextId, dropLog>>

\* the variables a specification does not exercise
unobserved == <<response, configVars, inFlight, traceVars>>

\* ------------------------------------------------------ specifications
OtherKinds == Kinds \ {"cpu"}

\* The collectors and the channel, with no consumer: the aggregator goroutine
\* has not been scheduled.
HistWorkers ==
  HistSent /\ HistProbed /\ UNCHANGED <<overwritten, lastDelivered, committed, anyPublished>>
  /\ UNCHANGED unobserved

\* a cycle that ends with a failed probe made no hand-off attempt
HistNoAttempt(w) == cancelMidTick' = [cancelMidTick EXCEPT ![w] = FALSE]

NextWorkers ==
  \/ Cancel /\ HistWorkers /\ HistMidTick /\ UNCHANGED rejected
  \/ CPUCollector_Start /\ HistWorkers /\ HistMidTick /\ UNCHANGED rejected
  \/ \E w \in OtherKinds : CollectorStart(w) /\ HistWorkers /\ HistMidTick /\ UNCHANGED rejected
  \/ \E w \in Kinds : LoopDone(w) /\ HistWorkers /\ HistMidTick /\ UNCHANGED rejected
  \/ \E w \in Kinds : LoopTick(w) /\ HistWorkers /\ HistMidTick /\ UNCHANGED rejected
  \/ \E w \in Kinds : ProbeFail(w) /\ HistWorkers /\ HistNoAttempt(w) /\ UNCHANGED rejected
  \/ \E w \in Kinds : SendOK(w) /\ HistWorkers /\ HistMidTick /\ UNCHANGED rejected
  \/ \E w \in OtherKinds : SendDrop(w) /\ HistWorkers /\ HistMidTick /\ HistRejected(w)
  \/ CPUSendDone /\ HistWorkers /\ HistMidTick /\ HistRejected("cpu")
  \/ CPUSendDrop /\ HistWorkers /\ HistMidTick /\ HistRejected("cpu")

SpecWorkers == Init /\ [][NextWorkers]_vars

\* The collectors, the channel and the receiving side of the aggregator.
HistCollect ==
  HistDelivered /\ HistOverwritten
  /\ UNCHANGED <<probed, cancelMidTick, sentSinceRecv, rejected, committed, anyPublished>>
  /\ UNCHANGED unobserved

NextCollect ==
  \/ Cancel /\ HistCollect
  \/ CPUCollector_Start /\ HistCollect
  \/ \E w \in OtherKinds : CollectorStart(w) /\ HistCollect
  \/ \E w \in Kinds : LoopDone(w) /\ HistCollect
  \/ \E w \in Kinds : LoopTick(w) /\ HistCollect
  \/ \E w \in Kinds : ProbeFail(w) /\ HistCollect
  \/ \E w \in Kinds : SendOK(w) /\ HistCollect
  \/ \E w \in OtherKinds : SendDrop(w) /\ HistCollect
  \/ CPUSendDone /\ HistCollect
  \/ CPUSendDrop /\ HistCollect
  \/ Aggregator_Start /\ HistCollect
  \/ Aggregator_Done /\ HistCollect
  \/ Aggregator_Receive /\ HistCollect

SpecCollect == Init /\ [][NextCollect]_vars

\* The publishing side: the aggregator, the readers and the clock, fed by the
\* CPU and memory collectors (the disk and network collectors deliver nothing),
\* with no cancellation.
PublishKinds == {"cpu", "memory"}

HistPublish ==
  HistDelivered /\ HistCommitted /\ HistPublished
  /\ UNCHANGED <<probed, cancelMidTick, sentSinceRecv, rejected, overwritten>>
  /\ UNCHANGED unobserved

NextPublish ==
  \/ Advance /\ HistPublish
  \/ CPUCollector_Start /\ HistPublish
  \/ \E w \in PublishKinds \ {"cpu"} : CollectorStart(w) /\ HistPublish
  \/ \E w \in PublishKinds : LoopTick(w) /\ HistPublish
  \/ \E w \in PublishKinds : ProbeFail(w) /\ HistPublish
  \/ \E w \in PublishKinds : SendOK(w) /\ HistPublish
  \/ \E w \in PublishKinds : SendDrop(w) /\ HistPublish
  \/ Aggregator_Start /\ HistPublish
  \/ Aggregator_Receive /\ HistPublish
  \/ createSample_Build /\ HistPublish
  \/ createSample_Lock /\ HistPublish
  \/ createSample_Unlock /\ HistPublish
  \/ createSample_Update /\ HistPublish
  \/ \E r \in Readers : GetLatestSample_Read(r) /\ HistPublish
  \/ \E r \in Readers : GetLatestSample_RUnlock(r) /\ HistPublish

SpecPublish == Init /\ [][NextPublish]_vars

\* Shutdown: the CPU and memory collectors and the whole aggregator loop, with
\* cancellation. Fairness: a goroutine that can take a step other than a select
\* of its loop eventually takes one (the scheduler runs it and its probe
\* returns); a select case that is ready at infinitely many evaluations of the
\* select is eventually chosen (Go chooses uniformly among the ready cases).
ShutdownKinds == {"cpu", "memory"}

HistShutdown ==
  HistInFlight
  /\ UNCHANGED <<probed, cancelMidTick, sentSinceRecv, rejected, overwritten,
                 lastDelivered, committed, anyPublished>>
  /\ UNCHANGED <<response, configVars, traceVars>>

\* the steps of collector w outside the select of its loop
WorkerStep(w) ==
  IF w = "cpu"
    THEN CPUCollector_Start \/ ProbeFail(w) \/ CPUCollector_Send
    ELSE CollectorStart(w) \/ ProbeFail(w) \/ collectAndSend_Send(w)

\* the steps of the aggregator outside the select of its loop
AggregatorStep ==
  Aggregator_Start \/ createSample_Lock \/ createSample_Unlock \/ createSample_Update

NextShutdown ==
  \/ Cancel /\ HistShutdown
  \/ CPUCollector_Start /\ HistShutdown
  \/ \E w \in ShutdownKinds \ {"cpu"} : CollectorStart(w) /\ HistShutdown
  \/ \E w \in ShutdownKinds : LoopDone(w) /\ HistShutdown
  \/ \E w \in ShutdownKinds : LoopTick(w) /\ HistShutdown
  \/ \E w \in ShutdownKinds : ProbeFail(w) /\ HistShutdown
  \/ \E w \in ShutdownKinds : SendOK(w) /\ HistShutdown
  \/ \E w \in ShutdownKinds \ {"cpu"} : SendDrop(w) /\ HistShutdown
  \/ CPUSendDone /\ HistShutdown
  \/ CPUSendDrop /\ HistShutdown
  \/ Aggregator_Start /\ HistShutdown
  \/ Aggregator_Done /\ HistShutdown
  \/ Aggregator_Receive /\ HistShutdown
  \/ createSample_Build /\ HistShutdown
  \/ createSample_Lock /\ HistShutdown
  \/ createSample_Unlock /\ HistShutdown
  \/ createSample_Update /\ HistShutdown

FairShutdown ==
  /\ \A w \in ShutdownKinds : WF_vars(WorkerStep(w) /\ HistShutdown)
  /\ \A w \in ShutdownKinds : SF_vars(LoopDone(w) /\ HistShutdown)
  /\ WF_vars(AggregatorStep /\ HistShutdown)
  /\ SF_vars(Aggregator_Done /\ HistShutdown)

SpecShutdown == Init /\ [][NextShutdown]_vars /\ FairShutdown

\* Serving: HTTP requests for /metrics/latest while the aggregator publishes
\* Samples fed by the memory collector.
HistServe ==
  UNCHANGED <<probed, cancelMidTick, sentSinceRecv, rejected, overwritten,
              lastDelivered, committed, anyPublished>>
  /\ UNCHANGED <<configVars, inFlight, traceVars>>

NextServe ==
  \/ Advance /\ HistServe /\ UNCHANGED response
  \/ CollectorStart("memory") /\ HistServe /\ UNCHANGED response
  \/ LoopTick("memory") /\ HistServe /\ UNCHANGED response
  \/ ProbeFail("memory") /\ HistServe /\ UNCHANGED response
  \/ SendOK("memory") /\ HistServe /\ UNCHANGED response
  \/ SendDrop("memory") /\ HistServe /\ UNCHANGED response
  \/ Aggregator_Start /\ HistServe /\ UNCHANGED response
  \/ Aggregator_Receive /\ HistServe /\ UNCHANGED response
  \/ createSample_Build /\ HistServe /\ UNCHANGED response
  \/ createSample_Lock /\ HistServe /\ UNCHANGED response
  \/ createSample_Unlock /\ HistServe /\ UNCHANGED response
  \/ createSample_Update /\ HistServe /\ UNCHANGED response
  \/ \E r \in Readers : GetLatestSample_Read(r) /\ HistServe /\ UNCHANGED response
  \/ \E r \in Readers : MetricsLatestHandler_Return(r) /\ HistServe /\ UNCHANGED response
  \/ \E r \in Readers : MetricsLatestHandler_Write(r) /\ HistServe

SpecServe == Init /\ [][NextServe]_vars

\* Serving up to and after cancellation: the same goroutines at one instant of
\* the clock, with cancel() and the two ctx.Done() cases.
NextServeCancel ==
  \/ Cancel /\ HistServe /\ UNCHANGED response
  \/ CollectorStart("memory") /\ HistServe /\ UNCHANGED response
  \/ LoopDone("memory") /\ HistServe /\ UNCHANGED response
  \/ LoopTick("memory") /\ HistServe /\ UNCHANGED response
  \/ ProbeFail("memory") /\ HistServe /\ UNCHANGED response
  \/ SendOK("memory") /\ HistServe /\ UNCHANGED response
  \/ SendDrop("memory") /\ HistServe /\ UNCHANGED response
  \/ Aggregator_Start /\ HistServe /\ UNCHANGED response
  \/ Aggregator_Done /\ HistServe /\ UNCHANGED response
  \/ Aggregator_Receive /\ HistServe /\ UNCHANGED response
  \/ createSample_Build /\ HistServe /\ UNCHANGED response
  \/ createSample_Lock /\ HistServe /\ UNCHANGED response
  \/ createSample_Unlock /\ HistServe /\ UNCHANGED response
  \/ createSample_Update /\ HistServe /\ UNCHANGED response
  \/ \E r \in Readers : GetLatestSample_Read(r) /\ HistServe /\ UNCHANGED response
  \/ \E r \in Readers : MetricsLatestHandler_Return(r) /\ HistServe /\ UNCHANGED response
  \/ \E r \in Readers : MetricsLatestHandler_Write(r) /\ HistServe

SpecServeCancel == Init /\ [][NextServeCancel]_vars

\* Startup: main reads its three configuration values from an arbitrary
\* environment, constructs the aggregator and the goroutines create their tickers.
InitConfig == InitState /\ env \in [EnvKeys -> EnvValues]

HistConfig ==
  UNCHANGED <<ctxDone, now, workerVars, metricsChan, aggVars, muReaders, readerVars>>
  /\ UNCHANGED <<probed, cancelMidTick, sentSinceRecv, rejected, overwritten,
                 lastDelivered, committed, anyPublished>>
  /\ UNCHANGED <<response, inFlight, traceVars>>

NextConfig ==
  \/ main_LoadConfig /\ HistConfig
  \/ main_NewAggregator /\ HistConfig
  \/ Start_NewTicker /\ HistConfig

SpecConfig == InitConfig /\ [][NextConfig]_vars

\* Unknown types: the memory collector and a foreign sender feed the
\* aggregator, which publishes and can be cancelled.
HistForeign ==
  UNCHANGED <<probed, cancelMidTick, sentSinceRecv, rejected, overwritten,
              lastDelivered, committed, anyPublished>>
  /\ UNCHANGED <<response, configVars, inFlight>>

NextForeign ==
  \/ Cancel /\ HistForeign /\ UNCHANGED traceVars
  \/ nextId < MaxCreated /\ ForeignSend /\ HistForeign /\ HistTraceSend
  \/ CollectorStart("memory") /\ HistForeign /\ UNCHANGED traceVars
  \/ LoopTick("memory") /\ HistForeign /\ UNCHANGED traceVars
  \/ LoopDone("memory") /\ HistForeign /\ UNCHANGED traceVars
  \/ ProbeFail("memory") /\ HistForeign /\ UNCHANGED traceVars
  \/ nextId < MaxCreated /\ SendOK("memory") /\ HistForeign /\ HistTraceSend
  \/ nextId < MaxCreated /\ SendDrop("memory") /\ HistForeign /\ HistTraceDrop("memory")
  \/ Aggregator_Start /\ HistForeign /\ UNCHANGED traceVars
  \/ Aggregator_Done /\ HistForeign /\ UNCHANGED traceVars
  \/ Aggregator_Receive /\ HistForeign /\ HistTraceRecv
  \/ createSample_Build /\ HistForeign /\ UNCHANGED traceVars
  \/ createSample_Lock /\ HistForeign /\ UNCHANGED traceVars
  \/ createSample_Unlock /\ HistForeign /\ UNCHANGED traceVars
  \/ createSample_Update /\ HistForeign /\ UNCHANGED traceVars

SpecForeign == Init /\ [][NextForeign]_vars

\* The mailbox: the four collectors, the channel and the receiving side of the
\* aggregator, before cancellation; every Metric built is numbered and its
\* hand-off traced, up to MaxCreated Metrics.
HistMailbox ==
  UNCHANGED <<probed, cancelMidTick, sentSinceRecv, rejected, overwritten,
              lastDelivered, committed, anyPublished>>
  /\ UNCHANGED <<response, configVars, inFlight>>

NextMailbox ==
  \/ CPUCollector_Start /\ HistMailbox /\ UNCHANGED traceVars
  \/ \E w \in OtherKinds : CollectorStart(w) /\ HistMailbox /\ UNCHANGED traceVars
  \/ \E w \in Kinds : LoopTick(w) /\ HistMailbox /\ UNCHANGED traceVars
  \/ \E w \in Kinds : ProbeFail(w) /\ HistMailbox /\ UNCHANGED traceVars
  \/ \E w \in Kinds : nextId < MaxCreated /\ SendOK(w) /\ HistMailbox /\ HistTraceSend
  \/ \E w \in OtherKinds :
       nextId < MaxCreated /\ SendDrop(w) /\ HistMailbox /\ HistTraceDrop(w)
  \/ nextId < MaxCreated /\ CPUSendDrop /\ HistMailbox /\ HistTraceDrop("cpu")
  \/ Aggregator_Start /\ HistMailbox /\ UNCHANGED traceVars
  \/ Aggregator_Receive /\ HistMailbox /\ HistTraceRecv

SpecMailbox == Init /\ [][NextMailbox]_vars

\* The hand-off through shutdown: the CPU and memory collectors, the channel
\* and the receiving side of the aggregator, with cancellation, traced as above.
HandoffKinds == {"cpu", "memory"}

NextHandoff ==
  \/ Cancel /\ HistMailbox /\ UNCHANGED traceVars
  \/ CPUCollector_Start /\ HistMailbox /\ UNCHANGED traceVars
  \/ \E w \in HandoffKinds \ {"cpu"} : CollectorStart(w) /\ HistMailbox /\ UNCHANGED traceVars
  \/ \E w \in HandoffKinds : LoopDone(w) /\ HistMailbox /\ UNCHANGED traceVars
  \/ \E w \in HandoffKinds : LoopTick(w) /\ HistMailbox /\ UNCHANGED traceVars
  \/ \E w \in HandoffKinds : ProbeFail(w) /\ HistMailbox /\ UNCHANGED traceVars
  \/ \E w \in HandoffKinds : nextId < MaxCreated /\ SendOK(w) /\ HistMailbox /\ HistTraceSend
  \/ \E w \in HandoffKinds \ {"cpu"} :
       nextId < MaxCreated /\ SendDrop(w) /\ HistMailbox /\ HistTraceDrop(w)
  \/ nextId < MaxCreated /\ CPUSendDone /\ HistMailbox /\ HistTraceDrop("cpu")
  \/ nextId < MaxCreated /\ CPUSendDrop /\ HistMailbox /\ HistTraceDrop("cpu")
  \/ Aggregator_Start /\ HistMailbox /\ UNCHANGED traceVars
  \/ Aggregator_Done /\ HistMailbox /\ UNCHANGED traceVars
  \/ Aggregator_Receive /\ HistMailbox /\ HistTraceRecv

SpecHandoff == Init /\ [][NextHandoff]_vars

\* A hanging probe: the CPU collector enters collectCPUMetrics and never
\* returns from it; the other three collectors and the whole aggregator loop run.
StalledKind == "cpu"

HistStall ==
  HistCommitted
  /\ UNCHANGED <<probed, cancelMidTick, sentSinceRecv, rejected, overwritten,
                 lastDelivered, anyPublished>>
  /\ UNCHANGED unobserved

NextStall ==
  \/ CPUCollector_Start /\ HistStall
  \/ LoopTick(StalledKind) /\ HistStall
  \/ \E w \in Kinds \ {StalledKind} : CollectorStart(w) /\ HistStall
  \/ \E w \in Kinds \ {StalledKind} : LoopTick(w) /\ HistStall
  \/ \E w \in Kinds \ {StalledKind} : ProbeFail(w) /\ HistStall
  \/ \E w \in Kinds \ {StalledKind} : SendOK(w) /\ HistStall
  \/ \E w \in Kinds \ {StalledKind} : SendDrop(w) /\ HistStall
  \/ Aggregator_Start /\ HistStall
  \/ Aggregator_Receive /\ HistStall
  \/ createSample_Build /\ HistStall
  \/ createSample_Lock /\ HistStall
  \/ createSample_Unlock /\ HistStall
  \/ createSample_Update /\ HistStall

SpecStall == Init /\ [][NextStall]_vars

\* Publishing without cancellation: the CPU and memory collectors, the whole
\* aggregator loop and the readers; ctx is never cancelled. Fairness: the
\* aggregator goroutine, once past its select, runs on; each case of its select
\* that is ready at infinitely many evaluations is eventually chosen (Go chooses
\* uniformly among the ready cases); a reader that holds the read lock runs its
\* deferred RUnlock. Nothing is assumed of the collectors.
LiveKinds == {"cpu", "memory"}

HistLive ==
  UNCHANGED <<probed, cancelMidTick, sentSinceRecv, rejected, overwritten,
              lastDelivered, committed, anyPublished>>
  /\ UNCHANGED unobserved

NextLive ==
  \/ CPUCollector_Start /\ HistLive
  \/ \E w \in LiveKinds \ {"cpu"} : CollectorStart(w) /\ HistLive
  \/ \E w \in LiveKinds : LoopTick(w) /\ HistLive
  \/ \E w \in LiveKinds : ProbeFail(w) /\ HistLive
  \/ \E w \in LiveKinds : SendOK(w) /\ HistLive
  \/ \E w \in LiveKinds : SendDrop(w) /\ HistLive
  \/ Aggregator_Start /\ HistLive
  \/ Aggregator_Receive /\ HistLive
  \/ createSample_Build /\ HistLive
  \/ createSample_Lock /\ HistLive
  \/ createSample_Unlock /\ HistLive
  \/ createSample_Update /\ HistLive
  \/ \E r \in Readers : GetLatestSample_Read(r) /\ HistLive
  \/ \E r \in Readers : GetLatestSample_RUnlock(r) /\ HistLive

FairLive ==
  /\ WF_vars(AggregatorStep /\ HistLive)
  /\ SF_vars(Aggregator_Receive /\ HistLive)
  /\ SF_vars(createSample_Build /\ HistLive)
  /\ \A r \in Readers : WF_vars(GetLatestSample_RUnlock(r) /\ HistLive)

SpecLive == Init /\ [][NextLive]_vars /\ FairLive

\* The whole program.
Next ==
  \/ Cancel
  \/ Advance
  \/ CPUCollector
  \/ MemoryCollector
  \/ DiskCollector
  \/ NetworkCollector
  \/ Aggregator
  \/ \E r \in Readers : GetLatestSample(r)

Spec ==
  Init /\ [][Next /\ HistDelivered /\ HistCommitted /\ HistPublished
             /\ UNCHANGED <<probed, cancelMidTick, sentSinceRecv, rejected, overwritten>>
             /\ UNCHANGED unobserved]_vars

\* ------------------------------------------------------------- claims

\* C2: with capacity bufferSize and no consumer receiving, at most bufferSize
\* sends succeed however many the collectors attempt; an attempt on a full
\* channel leaves the channel as it is and ends the collector's cycle, and the
\* send step of a collecting collector is always enabled (it never blocks).
C2_AtMostCapacitySucceed ==
  /\ [](sentSinceRecv <= bufferSize)
  /\ [][\A w \in Kinds :
          (pc[w] = "collecting" /\ pc'[w] # "collecting" /\ Len(metricsChan) >= bufferSize)
            => (metricsChan' = metricsChan /\ pc'[w] \in {"waiting", "stopped"})]_vars
  /\ [](/\ pc["cpu"] = "collecting" => ENABLED CPUCollector_Send
        /\ \A w \in OtherKinds : pc[w] = "collecting" => ENABLED collectAndSend_Send(w))

\* C2 witness: the channel holds bufferSize Metrics, all sent with no receive,
\* and a further attempt has been rejected.
C2_Witness ==
  /\ sentSinceRecv = bufferSize
  /\ Len(metricsChan) = bufferSize
  /\ rejected
  /\ \A w \in Kinds : pc[w] = "waiting"

\* C7 (as claimed): every collector has invoked its probe before it first
\* waits for a tick.
C7_FirstCollectionImmediate ==
  \A w \in Kinds : pc[w] = "waiting" => probed[w]

\* C8 (as claimed): a collector whose cycle was in progress when cancellation
\* fired, and which then made its hand-off attempt, never invokes its probe
\* again once that cycle has ended.
C8_NoProbeAfterMidTickCancel ==
  [][\A w \in Kinds :
       cancelMidTick[w] => ~(pc[w] = "waiting" /\ pc'[w] = "collecting")]_vars

\* C1: after any sequence of receives, in any interleaving of types, the slot
\* of each type holds the payload of the last Metric of that type received, and
\* is nil for a type never received.
C1_LastWriteWins ==
  \A k \in Kinds : current[k] = lastDelivered[k]

\* C1 witness: two types have been received and a later Metric has replaced a
\* different payload of its type.
C1_Witness ==
  /\ overwritten
  /\ current["cpu"] # Nil
  /\ current["memory"] # Nil
  /\ current["disk"] = Nil
  /\ \A k \in Kinds : current[k] = lastDelivered[k]

\* C9: a failed probe enqueues nothing and leaves the collector waiting for its
\* next tick (not collecting again, not stopped); a waiting collector can always
\* take its next tick and invoke the probe again.
C9_ProbeFailureSkipsCycle ==
  /\ [][\A w \in Kinds :
          ProbeFail(w) => (metricsChan' = metricsChan /\ pc'[w] = "waiting")]_vars
  /\ [](\A w \in Kinds : pc[w] = "waiting" => ENABLED LoopTick(w))

\* C9 witness: the memory collector has ended its first cycle although the
\* channel was empty and nothing has been received: its probe failed, nothing
\* was enqueued and the collector waits for its next tick.
C9_Witness ==
  /\ pc["memory"] = "waiting"
  /\ metricsChan = <<>>
  /\ aggPc = "idle"
  /\ ~ctxDone

\* C10: a collector or the aggregator is stopped only if the context has been
\* cancelled.
C10_StoppedOnlyIfCancelled ==
  /\ \A w \in Kinds : pc[w] = "stopped" => ctxDone
  /\ aggPc = "stopped" => ctxDone

\* C10 witness: after cancellation every collector and the aggregator have
\* stopped, with Metrics left in a full channel.
C10_Witness ==
  /\ ctxDone
  /\ \A w \in Kinds : pc[w] = "stopped"
  /\ aggPc = "stopped"
  /\ Len(metricsChan) = bufferSize

\* the step is reader r taking its copy of latestSample
IsRead(r) == rpc[r] = "idle" /\ rpc'[r] = "reading"

\* C3: whatever the other readers and the aggregator are doing, the copy a
\* reader takes is the last Sample completely written to latestSample (the zero
\* Sample before the first publish), and every such Sample is exactly the one
\* Sample createSample built in that call, timestamp and payloads together.
C3_NoPartialSample ==
  /\ [][\A r \in Readers : IsRead(r) => result'[r] = committed]_vars
  /\ [][committed' # committed => (aggPc = "writing" /\ committed' = sample)]_vars

\* C3 witness: two readers hold their copies of a published Sample at the same
\* time while createSample waits in Lock() with a different Sample to publish.
C3_Witness ==
  /\ \A r \in Readers : rpc[r] = "reading" /\ result[r] = committed
  /\ committed.Timestamp # ZeroTime
  /\ committed.cpu # ZeroPayload
  /\ aggPc = "locking"
  /\ sample.Timestamp # committed.Timestamp
  /\ sample.cpu # committed.cpu

\* C4: a copy taken before createSample has written anything is the zero
\* Sample: zero timestamp and four zero payloads.
C4_ZeroSampleBeforePublish ==
  [][\A r \in Readers : (IsRead(r) /\ ~anyPublished) => result'[r] = ZeroSample]_vars

\* C4 witness: a reader holds the zero Sample although a Metric has already
\* been received, because nothing has been published yet.
C4_Witness ==
  /\ ~anyPublished
  /\ rpc[1] = "reading"
  /\ result[1] = ZeroSample
  /\ current["cpu"] # Nil

\* C5: in every Sample createSample builds, each type never received has the
\* zero payload and each type received has the payload last received; so the
\* published Sample and latestSample are zero for every type never received.
C5_UndeliveredKindsAreZero ==
  /\ [][(aggPc = "select" /\ aggPc' = "locking") =>
          \A k \in Kinds :
            sample'[k] = IF lastDelivered[k] = Nil THEN ZeroPayload ELSE lastDelivered[k][1]]_vars
  /\ [](\A k \in Kinds :
          lastDelivered[k] = Nil => (committed[k] = ZeroPayload /\ latestSample[k] = ZeroPayload))

\* C5 witness: only CPU and memory Metrics have been received and the published
\* Sample carries their payloads and the zero payload for disk and network.
C5_Witness ==
  /\ committed.Timestamp # ZeroTime
  /\ lastDelivered["cpu"] # Nil /\ committed.cpu = lastDelivered["cpu"][1]
  /\ lastDelivered["memory"] # Nil /\ committed.memory = lastDelivered["memory"][1]
  /\ lastDelivered["disk"] = Nil /\ committed.disk = ZeroPayload
  /\ lastDelivered["network"] = Nil /\ committed.network = ZeroPayload

\* C6: each published Sample has a timestamp greater than or equal to that of
\* the Sample published before it.
C6_TimestampsNonDecreasing ==
  [][/\ committed'.Timestamp >= committed.Timestamp
     /\ latestSample'.Timestamp >= latestSample.Timestamp]_vars

\* C6 witness: a Sample stamped later than the previous one has just been
\* published; the exporter still holds the previous one.
C6_Witness ==
  /\ aggPc = "unlocked"
  /\ promSample.Timestamp # ZeroTime
  /\ committed.Timestamp > promSample.Timestamp

\* C11: once the context is cancelled, the collectors (whose probes return) and
\* the aggregator all reach stopped, whatever metricsChan holds and whether or
\* not the aggregator is still receiving.
C11_AllStopAfterCancel ==
  ctxDone ~> ((\A w \in ShutdownKinds : pc[w] = "stopped") /\ aggPc = "stopped")

\* C11 witness: both collectors and the aggregator have stopped after a
\* cancellation that found metricsChan full, and the channel is still full.
C11_Witness ==
  /\ ctxDone
  /\ \A w \in ShutdownKinds : pc[w] = "stopped"
  /\ aggPc = "stopped"
  /\ inFlight = bufferSize
  /\ Len(metricsChan) = bufferSize

\* C12 (as claimed): after cancellation no Metric that was queued when
\* cancel() was called is received and stored, and latestSample is not written.
C12_InFlightDiscarded ==
  [][ctxDone => (~(inFlight > 0 /\ IsReceive) /\ latestSample' = latestSample)]_vars

C14_ConfigAlwaysPositive ==
  /\ cfg.loaded =>
       (cfg.collectorInterval > 0 /\ cfg.sampleInterval > 0 /\ cfg.bufferSize > 0)
  /\ started # "panic"

\* C15: the Sample createSample wrote to latestSample is the one it passes to
\* UpdateFromSample before it returns to the select; so whenever the aggregator
\* is outside createSample the exporter's Sample equals latestSample.
C15_ExporterFollowsStore ==
  /\ [][(aggPc = "unlocked" /\ aggPc' = "select") =>
          (promSample' = latestSample /\ promSample' = committed)]_vars
  /\ [](aggPc \in {"idle", "select", "stopped"} => promSample = latestSample)

\* C15 witness: back at the select after a publish stamped with the last clock
\* value, the exporter and the store hold the same Sample with CPU and memory
\* payloads.
C15_Witness ==
  /\ aggPc = "select"
  /\ promSample = latestSample
  /\ promSample.Timestamp = MaxTime
  /\ promSample.cpu # ZeroPayload
  /\ promSample.memory # ZeroPayload

\* C16: receiving a Metric whose type is none of the four leaves the four
\* slots and latestSample as they are, and the aggregator stays in its loop.
C16_UnknownKindIgnored ==
  [][(IsReceive /\ Head(metricsChan).Type \notin Kinds) =>
       (current' = current /\ latestSample' = latestSample /\ aggPc' = "select")]_vars

\* C16 witness: a memory Metric and then a Metric of an unknown type have been
\* received; the memory slot still holds the memory payload, the other slots
\* are nil, and the aggregator is at its select.
C16_Witness ==
  /\ Len(recvLog) = 2
  /\ recvLog[1].Type = "memory"
  /\ recvLog[2].Type \in UnknownKinds
  /\ current["memory"] # Nil
  /\ \A k \in Kinds \ {"memory"} : current[k] = Nil
  /\ aggPc = "select"
  /\ latestSample.memory # ZeroPayload

\* C17: a Metric handed over while metricsChan is full is discarded and the
\* channel keeps its contents and order; an accepted Metric goes to the tail;
\* while there is room the send is taken and the default branch is not, so
\* after a receive the next hand-off succeeds.
C17_DropNewKeepsQueue ==
  /\ [][\A w \in Kinds :
          (/\ pc[w] = "collecting" /\ pc'[w] # "collecting"
           /\ nextId' > nextId /\ Len(metricsChan) >= bufferSize)
            => (/\ metricsChan' = metricsChan
                /\ chanIds' = chanIds
                /\ dropLog' = Append(dropLog, [Type |-> w, id |-> nextId'])
                /\ pc'[w] = "waiting")]_vars
  /\ [][IsSend => (/\ Len(metricsChan') = Len(metricsChan) + 1
                   /\ SubSeq(metricsChan', 1, Len(metricsChan)) = metricsChan)]_vars
  /\ [][(IsReceive /\ Len(metricsChan) = bufferSize) =>
          (Len(metricsChan') < bufferSize /\ metricsChan' = Tail(metricsChan))]_vars
  /\ [](\A w \in Kinds :
          (pc[w] = "collecting" /\ Len(metricsChan) < bufferSize /\ nextId < MaxCreated)
            => (ENABLED SendOK(w) /\ ~ENABLED SendDrop(w)))

\* C17 witness, with capacity 2: the CPU and memory Metrics (1 and 2) were
\* accepted, the disk Metric (3) was discarded, 1 and 2 were received in that
\* order, and the network Metric (4) was then accepted.
C17_Witness ==
  /\ bufferSize = 2
  /\ recvLog = <<[Type |-> "cpu", id |-> 1], [Type |-> "memory", id |-> 2]>>
  /\ dropLog = <<[Type |-> "disk", id |-> 3]>>
  /\ chanIds = <<4>>
  /\ Len(metricsChan) = 1
  /\ metricsChan[1].Type = "network"

\* C18: the Metrics built so far are exactly those discarded at the hand-off,
\* those queued and those received, each in one place only and received at
\* most once; so built = discarded + queued + received.
C18_EachMetricOnce ==
  /\ nextId = Len(dropLog) + Len(metricsChan) + Len(recvLog)
  /\ Len(chanIds) = Len(metricsChan)
  /\ \A i, j \in 1..Len(recvLog) : recvLog[i].id = recvLog[j].id => i = j
  /\ \A n \in 1..nextId :
       Cardinality({i \in 1..Len(recvLog) : recvLog[i].id = n}
                     \cup {Len(recvLog) + i : i \in {i \in 1..Len(dropLog) : dropLog[i].id = n}}
                     \cup {Len(recvLog) + Len(dropLog) + i :
                              i \in {i \in 1..Len(chanIds) : chanIds[i] = n}}) = 1

\* C18 witness: of four Metrics built, one was discarded on a full channel, one
\* was discarded by the CPU collector at cancellation, one was received and one
\* is left in the channel after the aggregator has stopped.
C18_Witness ==
  /\ nextId = 4
  /\ Len(dropLog) = 2
  /\ Len(recvLog) = 1
  /\ Len(metricsChan) = 1
  /\ aggPc = "stopped"
  /\ pc["cpu"] = "stopped"
  /\ \E i \in 1..Len(dropLog) : dropLog[i].Type = "cpu"
  /\ \E i \in 1..Len(dropLog) : dropLog[i].Type = "memory"

\* C19: the Metrics of one type are received in the order in which the
\* collector of that type built them.
C19_PerKindOrder ==
  \A i, j \in 1..Len(recvLog) :
    (i < j /\ recvLog[i].Type = recvLog[j].Type) => recvLog[i].id < recvLog[j].id

\* C19 witness: two memory Metrics were received with a CPU Metric between them,
\* and a memory Metric built between the two was discarded.
C19_Witness ==
  /\ Len(recvLog) = 3
  /\ recvLog[1].Type = "memory"
  /\ recvLog[2].Type = "cpu"
  /\ recvLog[3].Type = "memory"
  /\ \E d \in 1..Len(dropLog) :
       /\ dropLog[d].Type = "memory"
       /\ recvLog[1].id < dropLog[d].id
       /\ dropLog[d].id < recvLog[3].id

\* C20: while the CPU collector is inside a probe that does not return, every
\* other collector can take its next step (start, tick and probe, hand over)
\* and the aggregator can take its next step (receive whatever is queued, build,
\* write and export a Sample): none of them waits for the stalled collector.
C20_StallIsLocal ==
  pc[StalledKind] = "collecting" =>
    /\ \A w \in Kinds \ {StalledKind} :
         /\ pc[w] = "idle" => ENABLED CollectorStart(w)
         /\ pc[w] = "waiting" => ENABLED LoopTick(w)
         /\ pc[w] = "collecting" => ENABLED collectAndSend_Send(w)
    /\ aggPc = "idle" => ENABLED Aggregator_Start
    /\ aggPc = "select" => ENABLED createSample_Build
    /\ (aggPc = "select" /\ metricsChan # <<>>) => ENABLED Aggregator_Receive
    /\ aggPc = "locking" => ENABLED createSample_Lock
    /\ aggPc = "writing" => ENABLED createSample_Unlock
    /\ aggPc = "unlocked" => ENABLED createSample_Update

\* C20 witness: with the CPU collector stalled in its probe, a Sample with the
\* payloads of the other three collectors and the zero CPU payload has been
\* published and exported, and the three collectors wait for their next tick.
C20_Witness ==
  /\ pc[StalledKind] = "collecting"
  /\ \A w \in Kinds \ {StalledKind} : pc[w] = "waiting"
  /\ committed.cpu = ZeroPayload
  /\ committed.memory # ZeroPayload
  /\ committed.disk # ZeroPayload
  /\ committed.network # ZeroPayload
  /\ promSample = committed
  /\ aggPc = "select"

\* C21 (as claimed): every collector checks the context at its hand-off, so
\* with the context cancelled each collecting collector can return from Start
\* at the hand-off, and any two collecting collectors agree on that.
C21_OneHandoffPolicy ==
  /\ \A w \in Kinds :
       (ctxDone /\ pc[w] = "collecting") => ENABLED HandoffReturns(w)
  /\ \A w, v \in Kinds :
       (ctxDone /\ pc[w] = "collecting" /\ pc[v] = "collecting")
         => (ENABLED HandoffReturns(w) <=> ENABLED HandoffReturns(v))

\* C22: at the step that completes the write of latestSample, the payload of
\* each type equals the content of its slot at that moment (zero for a nil
\* slot); hence if the slots still equal the payloads of the previous publish,
\* the new Sample has the same payloads as the previous one.
C22_PublishEqualsSlots ==
  /\ [][(aggPc = "writing" /\ aggPc' = "unlocked") =>
          \A k \in Kinds :
            /\ latestSample'[k] = SlotValue(current[k])
            /\ latestSample'[k] = SlotValue(current'[k])
            /\ (\A j \in Kinds : committed[j] = SlotValue(current[j]))
                 => latestSample'[k] = committed[k]]_vars
  /\ [](aggPc \in {"locking", "writing", "unlocked"} =>
          \A k \in Kinds : sample[k] = SlotValue(current[k]))

\* C22 witness: a later Sample has just been published while the exporter still
\* holds the one before it. Both carry the same CPU and memory payloads, and
\* the later one has a later timestamp.
C22_Witness ==
  /\ aggPc = "unlocked"
  /\ promSample.Timestamp # ZeroTime
  /\ latestSample.Timestamp > promSample.Timestamp
  /\ \A k \in Kinds : latestSample[k] = promSample[k]
  /\ latestSample.cpu # ZeroPayload
  /\ latestSample.memory # ZeroPayload
  /\ latestSample.cpu # latestSample.memory

\* C23: metricsChan never holds more than bufferSize Metrics, however the four
\* collectors and the aggregator interleave.
C23_MailboxBounded ==
  Len(metricsChan) <= bufferSize

\* C23 witness: the channel is full, the aggregator has not started to receive
\* and all four collectors are about to hand over another Metric.
C23_Witness ==
  /\ Len(metricsChan) = bufferSize
  /\ aggPc = "idle"
  /\ \A w \in Kinds : pc[w] = "collecting"
  /\ ~ctxDone

\* C24: with ctx never cancelled and a fair select in the aggregator, from some
\* point on latestSample has a non-zero timestamp and every GetLatestSample
\* returns one, however full the channel is kept; and a payload that
\* storeMetric has put in a slot is later in a freshly published Sample unless
\* the slot has been given another payload by then.
C24_EventuallyPublished ==
  /\ <>[](/\ latestSample.Timestamp # ZeroTime
          /\ \A r \in Readers : rpc[r] = "reading" => result[r].Timestamp # ZeroTime)
  /\ \A k \in LiveKinds : \A v \in 1..MaxPayload :
       (aggPc = "select" /\ current[k] = <<v>>)
         ~> ((aggPc = "unlocked" /\ latestSample[k] = v) \/ current[k] # <<v>>)

\* C24 witness: a Sample that carries a received memory payload has just been
\* published while the channel is full, and a reader holds a copy of it.
C24_Witness ==
  /\ ~ctxDone
  /\ Len(metricsChan) = bufferSize
  /\ aggPc = "unlocked"
  /\ current["memory"] # Nil
  /\ latestSample.memory = SlotValue(current["memory"])
  /\ \E r \in Readers : rpc[r] = "reading" /\ result[r] = latestSample

\* C25: a slot that holds a payload is never emptied and changes only when a
\* Metric is received; it holds the last payload delivered for its kind; and
\* every Sample published carries, for every kind, the last payload delivered
\* so far, under the time at which createSample built it.
C25_SlotNeverCleared ==
  /\ [][/\ \A k \in Kinds : current[k] # Nil => current'[k] # Nil
        /\ ~IsReceive => current' = current
        /\ (aggPc = "select" /\ aggPc' = "locking") => sample'.Timestamp = now
        /\ (aggPc = "writing" /\ aggPc' = "unlocked") =>
             /\ \A k \in Kinds : latestSample'[k] = SlotValue(lastDelivered[k])
             /\ latestSample'.Timestamp = sample.Timestamp
             /\ latestSample'.Timestamp >= committed.Timestamp]_vars
  /\ [](\A k \in Kinds : current[k] = lastDelivered[k])

\* C25 witness: two Samples in a row carry the last delivered memory payload,
\* the later one under a later timestamp, while the channel is empty and the
\* memory collector is between two cycles.
C25_Witness ==
  /\ aggPc = "unlocked"
  /\ metricsChan = <<>>
  /\ pc["memory"] = "waiting"
  /\ lastDelivered["memory"] # Nil
  /\ promSample.Timestamp # ZeroTime
  /\ promSample.memory = SlotValue(lastDelivered["memory"])
  /\ latestSample.memory = SlotValue(lastDelivered["memory"])
  /\ latestSample.Timestamp > promSample.Timestamp

\* C26: once latestSample has a non-zero timestamp it keeps one, before and
\* after cancellation; so a call of /metrics/latest that takes its copy after
\* a publish, or after some call has answered 200, holds a copy with a non-zero
\* timestamp until it answers, and answers 200.
C26_NeverBackToZero ==
  /\ [][latestSample.Timestamp # ZeroTime => latestSample'.Timestamp # ZeroTime]_vars
  /\ [][\A r \in Readers :
          /\ (/\ IsRead(r)
              /\ \/ latestSample.Timestamp # ZeroTime
                 \/ \E q \in Readers : response[q].status = StatusOK)
               => result'[r].Timestamp # ZeroTime
          /\ (rpc[r] # "idle" /\ rpc'[r] # "idle") => result'[r] = result[r]
          /\ (rpc[r] = "responding" /\ rpc'[r] = "idle" /\ result[r].Timestamp # ZeroTime)
               => response'[r].status = StatusOK]_vars

\* C26 witness: after cancellation, with the aggregator stopped, both readers
\* have answered 200 and the second is in a further call, holding a copy of
\* latestSample with a non-zero timestamp.
C26_Witness ==
  /\ ctxDone
  /\ aggPc = "stopped"
  /\ \A r \in Readers : response[r].status = StatusOK
  /\ rpc[2] = "responding"
  /\ result[2] = latestSample
  /\ result[2].Timestamp # ZeroTime

====
